---------------------------- MODULE Spec2Model ----------------------------
(***************************************************************************)
(* Model of the crawl engine of website-scraper                            *)
(* (src/src/scrapers/website_scraper.py, class WebsiteScraper) and of its  *)
(* command line driver (src/example.py).                                   *)
(*                                                                         *)
(* A URL is a string.  TLC cannot index a string, so a URL is modelled as  *)
(* the sequence of its lexical tokens: each delimiter character            *)
(* ":" "/" "?" "#" ";" is a token of its own and every maximal run of      *)
(* other characters ("http", "ex.com", "product", ...) is one token.       *)
(* urllib's urlparse / urlunparse / urljoin and str.rstrip are modelled    *)
(* on these sequences by what they do, delimiter by delimiter.             *)
(***************************************************************************)
EXTENDS Integers, Sequences, FiniteSets, TLC

VARIABLES
    base_url,            \* self.base_url
    visited_urls,        \* self.visited_urls
    page_hierarchy,      \* self.page_hierarchy : clean url -> node
    product_pages,       \* self.product_pages
    category_pages,      \* self.category_pages
    content_pages,       \* self.content_pages
    to_visit,            \* scrape_website: local to_visit
    pages_scraped,       \* scrape_website: local pages_scraped
    max_pages,           \* scrape_website: argument max_pages (None or an int)
    page_data,           \* scrape_website: local page_data of the last iteration
    response,            \* what the last dequeue met: the HTTP response, or no fetch
    requests_log,        \* every page URL handed to requests.get, in order
    dequeues,            \* number of to_visit.pop(0) executed
    disk,                \* the output directory: the JSON files written
    served,              \* the size of the documents the site has served so far
    pc,                  \* where the process is
    call                 \* a single call of a pure method (FnSpec only)

vars == <<base_url, visited_urls, page_hierarchy, product_pages, category_pages,
          content_pages, to_visit, pages_scraped, max_pages, page_data, response,
          requests_log, dequeues, disk, served, pc, call>>

crawl_vars == <<visited_urls, page_hierarchy, product_pages, category_pages,
                content_pages, to_visit, pages_scraped, max_pages, page_data,
                response, requests_log, dequeues, disk, served, pc>>

-----------------------------------------------------------------------------
(* Bounds of the model.                                                    *)

MaxTail == 3      \* tokens after the authority in a generated URL
MaxSite == 3      \* anchors, images and marked pages of the site, all together
MaxBudget == 3    \* largest page budget tried

\* The seed and one entry for each anchor of the site are all that to_visit can
\* ever be given: an iteration beyond that many is not taken.
MaxDequeues == MaxSite + 2

HTTP_OK == 200

-----------------------------------------------------------------------------
(* Strings as token sequences.                                             *)

SeqsUpTo(S, n) == UNION {[1..k -> S] : k \in 0..n}

\* str.find(c, start): the first index >= start holding c, 0 when there is none.
MinOr(I, none) == IF I = {} THEN none ELSE CHOOSE i \in I : \A j \in I : i <= j
Find(s, c, start) == MinOr({i \in start..Len(s) : s[i] = c}, 0)

\* str.rfind(c): the last index holding c, 0 when there is none.
MaxOr(I, none) == IF I = {} THEN none ELSE CHOOSE i \in I : \A j \in I : j <= i
RFind(s, c) == MaxOr({i \in 1..Len(s) : s[i] = c}, 0)

From(s, i) == SubSeq(s, i, Len(s))
Upto(s, i) == SubSeq(s, 1, i)

\* str.rstrip('/') : every trailing "/" is removed.
RECURSIVE rstrip_slash(_)
rstrip_slash(s) ==
    IF s # <<>> /\ s[Len(s)] = "/" THEN rstrip_slash(Upto(s, Len(s) - 1)) ELSE s

\* str.strip('/') : every leading and trailing "/" is removed.
RECURSIVE lstrip_slash(_)
lstrip_slash(s) ==
    IF s # <<>> /\ s[1] = "/" THEN lstrip_slash(Tail(s)) ELSE s

strip_slash(s) == lstrip_slash(rstrip_slash(s))

\* str.lower() on one token, and on a string.
LowerTok(t) ==
    CASE t = "Shop" -> "shop"
      [] t = "EX.com" -> "ex.com"
      [] OTHER -> t

Lower(s) == [i \in 1..Len(s) |-> LowerTok(s[i])]

\* The delimiter characters; every other token is a run of letters, digits and
\* dots, all of them in urllib.parse.scheme_chars.
Delims == {":", "/", "?", "#", ";"}

\* Tokens whose first character is an ASCII letter.
AlphaStart(t) == t \notin Delims /\ t # "8080"

\* urllib.parse.uses_params and uses_netloc, as far as the alphabet can spell them.
uses_params == {<<>>, <<"http">>}
uses_netloc == {<<>>, <<"http">>}
uses_relative == {<<>>, <<"http">>}

-----------------------------------------------------------------------------
(* urllib.parse                                                            *)

\* _splitnetloc(url, 2): the end of the authority is the first of "/", "?", "#".
NetlocEnd(u) == MinOr({Find(u, c, 3) : c \in {"/", "?", "#"}} \ {0}, Len(u) + 1)

\* urlsplit, last step: the query is what follows the first "?" (q, 0 if none).
SplitQuery(scheme, netloc, url, fragment, q) ==
    [scheme |-> scheme, netloc |-> netloc,
     path |-> IF q > 0 THEN Upto(url, q - 1) ELSE url,
     query |-> IF q > 0 THEN From(url, q + 1) ELSE <<>>,
     fragment |-> fragment]

\* urlsplit: the fragment is what follows the first "#" (h, 0 if none).
SplitFragment(scheme, netloc, url, h) ==
    IF h > 0
    THEN SplitQuery(scheme, netloc, Upto(url, h - 1), From(url, h + 1),
                    Find(Upto(url, h - 1), "?", 1))
    ELSE SplitQuery(scheme, netloc, url, <<>>, Find(url, "?", 1))

\* urlsplit: the authority follows a leading "//" and ends at `stop`.
SplitNetloc(scheme, url, stop) ==
    IF Len(url) >= 2 /\ url[1] = "/" /\ url[2] = "/"
    THEN SplitFragment(scheme, SubSeq(url, 3, stop - 1), From(url, stop),
                       Find(From(url, stop), "#", 1))
    ELSE SplitFragment(scheme, <<>>, url, Find(url, "#", 1))

\* urlsplit: the scheme is what precedes the first ":" (at i, 0 if none), if it
\* starts with a letter and holds scheme characters only.
SplitScheme(url, default, i) ==
    IF /\ i > 1
       /\ AlphaStart(url[1])
       /\ \A k \in 1..(i - 1) : url[k] \notin Delims
    THEN SplitNetloc(Lower(Upto(url, i - 1)), From(url, i + 1),
                     NetlocEnd(From(url, i + 1)))
    ELSE SplitNetloc(default, url, NetlocEnd(url))

\* urlsplit(url, scheme): scheme is the default when the url spells none.
urlsplit(url, default) == SplitScheme(url, default, Find(url, ":", 1))

\* _splitparams(url), with i the place of the ";" that starts the params:
\* <<path, params>>.
SplitAt(url, i) ==
    IF i = 0 THEN <<url, <<>> >> ELSE <<Upto(url, i - 1), From(url, i + 1)>>

splitparams(url) ==
    IF Find(url, "/", 1) > 0
    THEN SplitAt(url, Find(url, ";", RFind(url, "/")))
    ELSE SplitAt(url, Find(url, ";", 1))

\* urlparse, given the result s of urlsplit.
WithParams(s, pp) ==
    [scheme |-> s.scheme, netloc |-> s.netloc, path |-> pp[1],
     params |-> pp[2], query |-> s.query, fragment |-> s.fragment]

ParseSplit(s) ==
    IF s.scheme \in uses_params /\ Find(s.path, ";", 1) > 0
    THEN WithParams(s, splitparams(s.path))
    ELSE WithParams(s, <<s.path, <<>> >>)

urlparse_default(url, default) == ParseSplit(urlsplit(url, default))

urlparse(url) == urlparse_default(url, <<>>)

\* urlunsplit, after the authority: scheme, query and fragment are put back.
Unsplit(scheme, url, query, fragment) ==
    (IF scheme # <<>> THEN scheme \o <<":">> ELSE <<>>)
    \o url
    \o (IF query # <<>> THEN <<"?">> \o query ELSE <<>>)
    \o (IF fragment # <<>> THEN <<"#">> \o fragment ELSE <<>>)

urlunsplit(scheme, netloc, url, query, fragment) ==
    IF \/ netloc # <<>>
       \/ /\ scheme # <<>>
          /\ scheme \in uses_netloc
          /\ ~(Len(url) >= 2 /\ url[1] = "/" /\ url[2] = "/")
    THEN Unsplit(scheme,
                 <<"/", "/">> \o netloc
                 \o (IF url # <<>> /\ url[1] # "/" THEN <<"/">> ELSE <<>>) \o url,
                 query, fragment)
    ELSE Unsplit(scheme, url, query, fragment)

urlunparse(p) ==
    urlunsplit(p.scheme, p.netloc,
               IF p.params # <<>> THEN p.path \o <<";">> \o p.params ELSE p.path,
               p.query, p.fragment)

\* urljoin(base, url) for a reference that carries its own authority, or a scheme
\* other than the base's: the cases a page's absolute anchors take.  (A reference
\* without authority is resolved against the base path; pages here hold none.)
JoinParsed(b, p, url) ==
    CASE p.scheme # b.scheme \/ p.scheme \notin uses_relative -> url
      [] p.scheme \in uses_netloc /\ p.netloc # <<>> -> urlunparse(p)

JoinBase(b, url) == JoinParsed(b, urlparse_default(url, b.scheme), url)

urljoin(base, url) ==
    IF base = <<>> THEN url
    ELSE IF url = <<>> THEN base
    ELSE JoinBase(urlparse(base), url)

-----------------------------------------------------------------------------
(* WebsiteScraper: the pure methods.                                       *)

\* A variant of is_valid_url_base that compares the host names only (the netloc
\* up to its port).
HostOnly(netloc) ==
    IF Find(netloc, ":", 1) > 0 THEN Upto(netloc, Find(netloc, ":", 1) - 1) ELSE netloc
is_valid_url_hostname(url, base) ==
    IF url = <<>> THEN FALSE
    ELSE HostOnly(urlparse(base).netloc) = HostOnly(urlparse(url).netloc)

\* A variant of is_valid_url_base that accepts every URL that is not empty.
is_valid_url_any(url, base) == url # <<>>

\* is_valid_url, with the base domain given (self.base_url's netloc).
is_valid_url_base(url, base) ==
    IF url = <<>> THEN FALSE
    ELSE urlparse(base).netloc = urlparse(url).netloc

is_valid_url(url) == is_valid_url_base(url, base_url)

clean_url(url) ==
    rstrip_slash(urlunparse([urlparse(url) EXCEPT !.query = <<>>, !.fragment = <<>>]))

\* The words get_page_type looks for, and whether a string holds one: a token is
\* atomic, so a word is in the string iff it is one of its tokens.
HasWord(s, w) == \E i \in 1..Len(s) : s[i] = w

\* soup: which of the four markers soup.find() finds in the document.
\* A variant of TypeOf that tests the category conditions first.
TypeOfCategoryFirst(url_path, soup) ==
    IF \/ HasWord(url_path, "category")
       \/ HasWord(url_path, "shop")
       \/ soup.ul_products
       \/ soup.div_header
    THEN "category"
    ELSE IF \/ HasWord(url_path, "product")
            \/ soup.div_product
            \/ soup.div_gallery
    THEN "product"
    ELSE "content"

TypeOf(url_path, soup) ==
    IF \/ HasWord(url_path, "product")
       \/ soup.div_product
       \/ soup.div_gallery
    THEN "product"
    ELSE IF \/ HasWord(url_path, "category")
            \/ HasWord(url_path, "shop")
            \/ soup.ul_products
            \/ soup.div_header
    THEN "category"
    ELSE "content"

get_page_type(url, soup) == TypeOf(Lower(urlparse(url).path), soup)

\* re.sub(r'[<>:"/\\|?*]', '-', path) on one token.
SafeTok(t) == IF t \in {":", "/", "?"} THEN "-" ELSE t

\* get_page_path: no token of the alphabet is percent-encoded, so unquote
\* leaves the path as it is.
SafePath(path) ==
    IF path = <<>> THEN <<"home">>
    ELSE Lower([i \in 1..Len(path) |-> SafeTok(path[i])])

get_page_path(url) == SafePath(strip_slash(urlparse(url).path))

-----------------------------------------------------------------------------
(* Inputs.                                                                 *)

HttpExCom == <<"http", ":", "/", "/", "ex.com">>

\* The seed URLs given on the command line (example.py validate_url: http://...).
Seeds == {HttpExCom \o <<"/">>, HttpExCom \o <<":", "8080">>}

\* __init__: self.base_url = base_url.rstrip('/')
InitBaseUrl(seed) == rstrip_slash(seed)

\* URLs for clean_url: a prefix followed by any tokens.
UrlPrefixes ==
    {HttpExCom, HttpExCom \o <<":", "8080">>, <<"http", ":", "/", "/", "EX.com">>,
     <<"/", "/", "ex.com">>, <<"http", ":">>, <<>>}
TailTokens == {"/", ";", "?", "#", "a"}
CleanInputs == {p \o t : p \in UrlPrefixes, t \in SeqsUpTo(TailTokens, MaxTail)}

\* URLs for is_valid_url, written from their components: scheme, host, port and
\* the rest (path, query, fragment).  A port needs a host; a rest after a host
\* starts with a delimiter, a rest without host does not start with "//".
Hosts == {<<>>, <<"ex.com">>, <<"EX.com">>, <<"evil.com">>}
Ports == {<<>>, <<"8080">>}
Rests ==
    {r \in SeqsUpTo({"/", "?", "#", "a"}, MaxTail - 1) :
        r = <<>> \/ r[1] \in {"/", "?", "#"}}
UrlParts ==
    {c \in [scheme : {<<>>, <<"http">>}, host : Hosts, port : Ports, rest : Rests] :
        /\ c.host = <<>> => c.port = <<>>
        /\ c.host = <<>> => ~(Len(c.rest) >= 2 /\ c.rest[1] = "/" /\ c.rest[2] = "/")}
NetlocOf(c) == IF c.port = <<>> THEN c.host ELSE c.host \o <<":">> \o c.port
WriteUrl(c) ==
    (IF c.scheme = <<>> THEN <<>> ELSE c.scheme \o <<":">>)
    \o (IF c.host = <<>> THEN <<>> ELSE <<"/", "/">> \o NetlocOf(c))
    \o c.rest

\* The components the seeds were written from.
SeedParts(base) ==
    IF base = HttpExCom
    THEN [scheme |-> <<"http">>, host |-> <<"ex.com">>, port |-> <<>>, rest |-> <<>>]
    ELSE [scheme |-> <<"http">>, host |-> <<"ex.com">>, port |-> <<"8080">>, rest |-> <<>>]

\* URLs and documents for get_page_type: http://ex.com, a path, and optionally
\* params and a query; the document by the markers soup.find() meets.
PathTokens == {"/", "a", "product", "Shop", "category"}
Paths == {r \in SeqsUpTo(PathTokens, MaxTail) : r = <<>> \/ r[1] = "/"}
PathParts == [path : Paths, params : {<<>>, <<"product">>}, query : {<<>>, <<"shop">>}]
WritePathUrl(c) ==
    HttpExCom \o c.path
    \o (IF c.params = <<>> THEN <<>> ELSE <<";">> \o c.params)
    \o (IF c.query = <<>> THEN <<>> ELSE <<"?">> \o c.query)
Soups == [div_product : BOOLEAN, div_gallery : BOOLEAN,
          ul_products : BOOLEAN, div_header : BOOLEAN]
NoMarkers == [div_product |-> FALSE, div_gallery |-> FALSE,
              ul_products |-> FALSE, div_header |-> FALSE]

-----------------------------------------------------------------------------
(* The site: what requests.get and BeautifulSoup hand to the scraper.      *)

\* max_pages=None
NoBudget == -1
Budgets == {NoBudget} \cup 0..MaxBudget

\* An optional value is <<>> (None) or <<v>>.
Some(v) == <<v>>

\* href attributes of the anchors of the site's pages.
Hrefs ==
    {HttpExCom \o <<"/">>,
     HttpExCom \o <<"/", "a", "?", "a">>,
     HttpExCom \o <<"/", "a", ";", "/">>,
     HttpExCom \o <<"/", "product", "/", "#", "a">>,
     <<"http", ":", "/", "/", "evil.com", "/", "a">>}

\* src attribute of the k-th image of a page.
ImgSrc(k) == HttpExCom \o <<"/", "img", IF k = 1 THEN "1" ELSE IF k = 2 THEN "2" ELSE "3">>

\* What requests.get does: raises, or returns a response with a status code.
Raised == [raised |-> TRUE, status_code |-> 0]
Status(code) == [raised |-> FALSE, status_code |-> code]
ImgResponses == {Status(HTTP_OK), Status(404), Raised}

ImgLists ==
    UNION {{[k \in 1..n |-> [src |-> ImgSrc(k), get |-> o[k]]] : o \in [1..n -> ImgResponses]}
           : n \in 0..MaxSite}

CrawlSoups ==
    {NoMarkers, [NoMarkers EXCEPT !.div_product = TRUE],
     [NoMarkers EXCEPT !.ul_products = TRUE]}

\* The size of a document: its anchors, its images, and one if it is marked.
DocSize(d) ==
    Len(d.anchors) + Len(d.imgs) + (IF d.soup = NoMarkers THEN 0 ELSE 1)

\* A parsed document: markers, <title>, <a href> in document order, <img> in
\* document order (with what fetching each image will meet).
Docs ==
    {d \in [soup : CrawlSoups, title : {"Title"},
            anchors : SeqsUpTo(Hrefs, MaxSite), imgs : ImgLists] :
        DocSize(d) <= MaxSite}

NoDoc == [soup |-> NoMarkers, title |-> "Title", anchors |-> <<>>, imgs |-> <<>>]

\* What a dequeue meets: no fetch at all, or the page fetch's outcome.
NoFetch == [fetched |-> FALSE, get |-> Raised, doc |-> NoDoc]
PageResponses ==
    {[fetched |-> TRUE, get |-> Status(HTTP_OK), doc |-> d] : d \in Docs}
    \cup {[fetched |-> TRUE, get |-> g, doc |-> NoDoc] : g \in {Status(404), Raised}}

\* The site is finite: the documents it serves have MaxSite elements all
\* together.  PagesOfSize[k]: the responses a site with k elements left can give.
PagesOfSize ==
    [k \in 0..MaxSite |->
        {resp \in PageResponses : DocSize(resp.doc) <= k}]

-----------------------------------------------------------------------------
(* WebsiteScraper.scrape_page                                              *)

\* A variant of download_image that does not look at the status code.
download_image_any_status(img_url, get) ==
    IF ~get.raised THEN Some([original_url |-> img_url]) ELSE <<>>

\* download_image: the image's metadata, or None.
download_image(img_url, get) ==
    IF ~get.raised /\ get.status_code = HTTP_OK
    THEN Some([original_url |-> img_url])
    ELSE <<>>

\* The image loop of scrape_page.
RECURSIVE DownloadImages(_, _)
DownloadImages(url, imgs) ==
    IF imgs = <<>> THEN <<>>
    ELSE (IF Head(imgs).src # <<>>
          THEN download_image(urljoin(url, Head(imgs).src), Head(imgs).get)
          ELSE <<>>)
         \o DownloadImages(url, Tail(imgs))

\* The anchor loop of scrape_page: the clean links, in document order.
RECURSIVE FindLinks(_, _)
\* One anchor: its clean link if its absolute URL is on the domain.
LinkOf(absolute_url) ==
    IF is_valid_url(absolute_url) THEN <<clean_url(absolute_url)>> ELSE <<>>

FindLinks(url, anchors) ==
    IF anchors = <<>> THEN <<>>
    ELSE (IF Head(anchors) # <<>> THEN LinkOf(urljoin(url, Head(anchors))) ELSE <<>>)
         \o FindLinks(url, Tail(anchors))

LinkData(links) == [i \in 1..Len(links) |-> [url |-> links[i]]]

\* self.page_hierarchy[key] = node
DictSet(h, key, node) ==
    [k \in DOMAIN h \cup {key} |-> IF k = key THEN node ELSE h[k]]

\* The state scrape_page reads and writes.
Scraper ==
    [visited_urls |-> visited_urls, page_hierarchy |-> page_hierarchy,
     product_pages |-> product_pages, category_pages |-> category_pages,
     content_pages |-> content_pages, page_info |-> disk.page_info]

\* A variant of AddToPageSet with 'if' for 'elif': a product page falls through
\* to the else branch too.
AddToPageSetFallThrough(st, page_type, clean) ==
    IF page_type = "product"
    THEN [st EXCEPT !.product_pages = @ \cup {clean}, !.content_pages = @ \cup {clean}]
    ELSE IF page_type = "category"
    THEN [st EXCEPT !.category_pages = @ \cup {clean}]
    ELSE [st EXCEPT !.content_pages = @ \cup {clean}]

\* Lines 298-303: the page joins the set of its type.
AddToPageSet(st, page_type, clean) ==
    IF page_type = "product"
    THEN [st EXCEPT !.product_pages = @ \cup {clean}]
    ELSE IF page_type = "category"
    THEN [st EXCEPT !.category_pages = @ \cup {clean}]
    ELSE [st EXCEPT !.content_pages = @ \cup {clean}]

\* A variant of AddNode that assigns a new dict holding the one node.
AddNodeFresh(st, clean, title, page_type) ==
    [st EXCEPT !.page_hierarchy =
        DictSet(<<>>, clean, [path |-> get_page_path(clean), title |-> title,
                              type |-> page_type, children |-> <<>>])]

\* Lines 289-295: the page's hierarchy node.
AddNode(st, clean, title, page_type) ==
    [st EXCEPT !.page_hierarchy =
        DictSet(@, clean, [path |-> get_page_path(clean), title |-> title,
                           type |-> page_type, children |-> <<>>])]

\* A variant of Rejected that forgets the visited set.
RejectedOffDomainOnly(st, clean) == ~is_valid_url(clean)

\* Line 215: the page is skipped without a fetch.
Rejected(st, clean) == clean \in st.visited_urls \/ ~is_valid_url(clean)

\* Lines 227-305: the page was fetched and parsed; it is written and registered.
Register(st1, url, clean, doc, page_type, images, links) ==
    [links |-> links,
     page_data |-> Some([url |-> clean, original_url |-> url,
                         path |-> get_page_path(clean), type |-> page_type,
                         title |-> doc.title, images |-> images,
                         links |-> LinkData(links)]),
     st |-> AddToPageSet(
                AddNode([st1 EXCEPT !.page_info =
                             DictSet(@, get_page_path(clean),
                                     [url |-> clean, links |-> LinkData(links)])],
                        clean, doc.title, page_type),
                page_type, clean),
     requested |-> TRUE]

\* A variant of ScrapeClean without the status test of line 223: whatever
\* requests.get returns is parsed and registered.
ScrapeCleanAnyStatus(st, url, clean, resp) ==
    IF Rejected(st, clean)
    THEN [links |-> <<>>, page_data |-> <<>>, st |-> st, requested |-> FALSE]
    ELSE IF resp.get.raised
    THEN [links |-> <<>>, page_data |-> <<>>,
          st |-> [st EXCEPT !.visited_urls = @ \cup {clean}], requested |-> TRUE]
    ELSE Register([st EXCEPT !.visited_urls = @ \cup {clean}], url, clean, resp.doc,
                  get_page_type(clean, resp.doc.soup),
                  DownloadImages(url, resp.doc.imgs),
                  FindLinks(url, resp.doc.anchors))

\* A variant of ScrapeClean that adds the page to visited_urls after the status
\* test instead of before the fetch.
ScrapeCleanVisitOnSuccess(st, url, clean, resp) ==
    IF Rejected(st, clean)
    THEN [links |-> <<>>, page_data |-> <<>>, st |-> st, requested |-> FALSE]
    ELSE IF resp.get.raised \/ resp.get.status_code # HTTP_OK
    THEN [links |-> <<>>, page_data |-> <<>>, st |-> st, requested |-> TRUE]
    ELSE Register([st EXCEPT !.visited_urls = @ \cup {clean}], url, clean, resp.doc,
                  get_page_type(clean, resp.doc.soup),
                  DownloadImages(url, resp.doc.imgs),
                  FindLinks(url, resp.doc.anchors))

\* Lines 215-309, with clean = self.clean_url(url).
ScrapeClean(st, url, clean, resp) ==
    IF Rejected(st, clean)
    THEN [links |-> <<>>, page_data |-> <<>>, st |-> st, requested |-> FALSE]
    ELSE IF resp.get.raised \/ resp.get.status_code # HTTP_OK
    THEN [links |-> <<>>, page_data |-> <<>>,
          st |-> [st EXCEPT !.visited_urls = @ \cup {clean}], requested |-> TRUE]
    ELSE Register([st EXCEPT !.visited_urls = @ \cup {clean}], url, clean, resp.doc,
                  get_page_type(clean, resp.doc.soup),
                  DownloadImages(url, resp.doc.imgs),
                  FindLinks(url, resp.doc.anchors))

\* scrape_page(url) on scraper state st, meeting response resp (once it fetches):
\* the returned links and page data, the scraper state after, and whether the
\* page was requested.
scrape_page(st, url, resp) == ScrapeClean(st, url, clean_url(url), resp)

-----------------------------------------------------------------------------
(* WebsiteScraper.scrape_website and save_site_hierarchy                   *)

\* A variant of LoopCondition that lets the loop run while pages_scraped has not
\* passed the budget.
LoopConditionOffByOne ==
    to_visit # <<>> /\ (max_pages = NoBudget \/ pages_scraped <= max_pages)

\* Line 339: the while condition.
LoopCondition ==
    to_visit # <<>> /\ (max_pages = NoBudget \/ pages_scraped < max_pages)

\* Lines 343-349: the children of the current page's node.
RECURSIVE AddChildren(_, _, _)
\* A variant of AddChild that records the edge on the target's node as well.
AddChildBothWays(h, current_clean, link_clean) ==
    IF link_clean \in DOMAIN h
    THEN [[h EXCEPT ![current_clean].children = Append(@, link_clean)]
             EXCEPT ![link_clean].children = Append(@, current_clean)]
    ELSE h

\* Lines 347-349 for one link.
AddChild(h, current_clean, link_clean) ==
    IF link_clean \in DOMAIN h
    THEN [h EXCEPT ![current_clean].children = Append(@, link_clean)]
    ELSE h

AddChildren(h, current_clean, links) ==
    IF links = <<>> THEN h
    ELSE AddChildren(AddChild(h, current_clean, clean_url(Head(links).url)),
                     current_clean, Tail(links))

\* A variant of Enqueue that also skips a link that is in to_visit already.
RECURSIVE EnqueueOnce(_, _, _)
EnqueueOnce(queue, new_links, visited) ==
    IF new_links = <<>> THEN queue
    ELSE EnqueueOnce(IF /\ clean_url(Head(new_links)) \notin visited
                        /\ \A i \in 1..Len(queue) : queue[i] # Head(new_links)
                     THEN Append(queue, Head(new_links))
                     ELSE queue,
                     Tail(new_links), visited)

\* Lines 351-354: the new links not yet visited join the tail of to_visit.
RECURSIVE Enqueue(_, _, _)
Enqueue(queue, new_links, visited) ==
    IF new_links = <<>> THEN queue
    ELSE Enqueue(IF clean_url(Head(new_links)) \notin visited
                 THEN Append(queue, Head(new_links))
                 ELSE queue,
                 Tail(new_links), visited)

\* The response a dequeue of url can meet: a page response when scrape_page
\* gets as far as requests.get.
ResponsesFor(url) ==
    IF Rejected(Scraper, clean_url(url)) THEN {NoFetch}
    ELSE PagesOfSize[MaxSite - served]

\* A variant of save_site_hierarchy with the product and category listings
\* taken from each other's set.
save_site_hierarchy_swapped(d) ==
    [d EXCEPT !.site_hierarchy = Some(page_hierarchy),
              !.page_listings = Some([products |-> category_pages,
                                      categories |-> product_pages,
                                      content |-> content_pages])]

\* save_site_hierarchy: the two JSON files.
save_site_hierarchy(d) ==
    [d EXCEPT !.site_hierarchy = Some(page_hierarchy),
              !.page_listings = Some([products |-> product_pages,
                                      categories |-> category_pages,
                                      content |-> content_pages])]

\* A variant of LoopBody that reads to_visit[0] and leaves it in the list.
LoopBodyNoPop(current_url, resp, r) ==
    /\ response' = resp
    /\ served' = served + DocSize(resp.doc)
    /\ to_visit' = Enqueue(to_visit, r.links, r.st.visited_urls)
    /\ visited_urls' = r.st.visited_urls
    /\ page_hierarchy' =
           IF r.page_data # <<>>
           THEN AddChildren(r.st.page_hierarchy, clean_url(current_url),
                            r.page_data[1].links)
           ELSE r.st.page_hierarchy
    /\ product_pages' = r.st.product_pages
    /\ category_pages' = r.st.category_pages
    /\ content_pages' = r.st.content_pages
    /\ disk' = [disk EXCEPT !.page_info = r.st.page_info]
    /\ page_data' = r.page_data
    /\ requests_log' = IF r.requested THEN Append(requests_log, current_url)
                       ELSE requests_log
    /\ dequeues' = dequeues + 1
    /\ pages_scraped' = pages_scraped + 1

\* Lines 341-356 of one iteration: r is what scrape_page returned.
LoopBody(current_url, resp, r) ==
    /\ response' = resp
    /\ served' = served + DocSize(resp.doc)
    /\ to_visit' = Enqueue(Tail(to_visit), r.links, r.st.visited_urls)
    /\ visited_urls' = r.st.visited_urls
    /\ page_hierarchy' =
           IF r.page_data # <<>>
           THEN AddChildren(r.st.page_hierarchy, clean_url(current_url),
                            r.page_data[1].links)
           ELSE r.st.page_hierarchy
    /\ product_pages' = r.st.product_pages
    /\ category_pages' = r.st.category_pages
    /\ content_pages' = r.st.content_pages
    /\ disk' = [disk EXCEPT !.page_info = r.st.page_info]
    /\ page_data' = r.page_data
    /\ requests_log' = IF r.requested THEN Append(requests_log, current_url)
                       ELSE requests_log
    /\ dequeues' = dequeues + 1
    /\ pages_scraped' = pages_scraped + 1

\* One iteration of the while loop (lines 339-360).
Iterate ==
    /\ pc = "running"
    /\ LoopCondition
    /\ dequeues < MaxDequeues
    /\ \E resp \in ResponsesFor(Head(to_visit)) :
        LoopBody(Head(to_visit), resp, scrape_page(Scraper, Head(to_visit), resp))
    /\ UNCHANGED <<base_url, max_pages, pc, call>>

\* The loop has ended: lines 362-365, then example.py prints the summary.
Finish ==
    /\ pc = "running"
    /\ ~LoopCondition
    /\ disk' = save_site_hierarchy(disk)
    /\ pc' = "done"
    /\ UNCHANGED <<base_url, visited_urls, page_hierarchy, product_pages,
                   category_pages, content_pages, to_visit, pages_scraped, max_pages,
                   page_data, response, requests_log, dequeues, served, call>>

\* Ctrl+C between two iterations (time.sleep(1), line 360, or the loop test):
\* KeyboardInterrupt is no Exception, nothing in scrape_website catches it, and
\* example.py (line 66) prints and ends the process.
InterruptBetweenPages ==
    /\ pc = "running"
    /\ pc' = "interrupted"
    /\ UNCHANGED <<base_url, visited_urls, page_hierarchy, product_pages,
                   category_pages, content_pages, to_visit, pages_scraped, max_pages,
                   page_data, response, requests_log, dequeues, disk, served, call>>

\* Ctrl+C inside scrape_page, while requests.get (line 222) is under way: the
\* URL is popped and marked visited, and the process ends.
InterruptInFetch ==
    /\ pc = "running"
    /\ LoopCondition
    /\ ~Rejected(Scraper, clean_url(Head(to_visit)))
    /\ to_visit' = Tail(to_visit)
    /\ dequeues' = dequeues + 1
    /\ visited_urls' = visited_urls \cup {clean_url(Head(to_visit))}
    /\ requests_log' = Append(requests_log, Head(to_visit))
    /\ pc' = "interrupted"
    /\ UNCHANGED <<base_url, page_hierarchy, product_pages, category_pages,
                   content_pages, pages_scraped, max_pages, page_data, response,
                   disk, served, call>>

\* Ctrl+C after line 295 and before line 298: the node is in page_hierarchy and
\* the page in no type set yet, and the process ends.
CutInRegister(current_url, resp, r) ==
    /\ r.page_data # <<>>
    /\ to_visit' = Tail(to_visit)
    /\ dequeues' = dequeues + 1
    /\ visited_urls' = r.st.visited_urls
    /\ page_hierarchy' = r.st.page_hierarchy
    /\ disk' = [disk EXCEPT !.page_info = r.st.page_info]
    /\ response' = resp
    /\ served' = served + DocSize(resp.doc)
    /\ requests_log' = Append(requests_log, current_url)

InterruptInRegister ==
    /\ pc = "running"
    /\ LoopCondition
    /\ \E resp \in ResponsesFor(Head(to_visit)) :
        CutInRegister(Head(to_visit), resp, scrape_page(Scraper, Head(to_visit), resp))
    /\ pc' = "interrupted"
    /\ UNCHANGED <<base_url, product_pages, category_pages, content_pages,
                   pages_scraped, max_pages, page_data, call>>

\* create_page_directory (line 219, outside the try) raises OSError: the
\* exception leaves scrape_website, example.py (line 68) prints it and exits 1.
MakedirsFails ==
    /\ pc = "running"
    /\ LoopCondition
    /\ ~Rejected(Scraper, clean_url(Head(to_visit)))
    /\ to_visit' = Tail(to_visit)
    /\ dequeues' = dequeues + 1
    /\ visited_urls' = visited_urls \cup {clean_url(Head(to_visit))}
    /\ pc' = "error"
    /\ UNCHANGED <<base_url, page_hierarchy, product_pages, category_pages,
                   content_pages, pages_scraped, max_pages, page_data, response,
                   requests_log, disk, served, call>>

\* No call of a pure method is under way.
NoParts == [scheme |-> <<>>, host |-> <<>>, port |-> <<>>, rest |-> <<>>,
            path |-> <<>>, params |-> <<>>, query |-> <<>>]
NoCall == [fn |-> "none", state |-> "idle", url |-> <<>>, parts |-> NoParts,
           soup |-> NoMarkers, ret |-> <<>>, ret2 |-> <<>>]

\* WebsiteScraper(base_url): lines 22-28.
Constructed(seed) ==
    /\ base_url = InitBaseUrl(seed)
    /\ visited_urls = {}
    /\ page_hierarchy = <<>>
    /\ product_pages = {}
    /\ category_pages = {}
    /\ content_pages = {}
    /\ disk = [site_hierarchy |-> <<>>, page_listings |-> <<>>, page_info |-> <<>>]

\* WebsiteScraper(base_url) and the entry into scrape_website(max_pages)
\* (lines 335-336).
Init ==
    /\ Constructed(HttpExCom \o <<"/">>)
    /\ to_visit = <<base_url>>
    /\ pages_scraped = 0
    /\ max_pages \in Budgets
    /\ page_data = <<>>
    /\ response = NoFetch
    /\ requests_log = <<>>
    /\ dequeues = 0
    /\ served = 0
    /\ pc = "running"
    /\ call = NoCall

Next ==
    \/ Iterate
    \/ Finish
    \/ InterruptBetweenPages
    \/ InterruptInFetch
    \/ InterruptInRegister
    \/ MakedirsFails

Spec == Init /\ [][Next]_vars

\* The step Iterate as pages_scraped shows it (line 356): no other step of Next
\* changes pages_scraped, and Iterate can be taken exactly when this step can.
IterationEnds ==
    /\ pc = "running"
    /\ LoopCondition
    /\ dequeues < MaxDequeues
    /\ pages_scraped' = pages_scraped + 1

\* The loop is sequential code: as long as the process is not stopped, the
\* iteration under way ends (requests.get and time.sleep return), and the code
\* after the loop runs once the loop has ended.
LiveSpec == Spec /\ WF_pages_scraped(IterationEnds) /\ WF_vars(Finish)

-----------------------------------------------------------------------------
(* The pure methods, called one at a time on a constructed scraper.        *)

CleanCalls ==
    {[NoCall EXCEPT !.fn = "clean_url", !.state = "called", !.url = u] :
        u \in CleanInputs}
ValidCalls ==
    {[NoCall EXCEPT !.fn = "is_valid_url", !.state = "called",
                    !.url = WriteUrl(c),
                    !.parts = [NoParts EXCEPT !.scheme = c.scheme, !.host = c.host,
                                              !.port = c.port, !.rest = c.rest]] :
        c \in UrlParts}
TypeCalls ==
    {[NoCall EXCEPT !.fn = "get_page_type", !.state = "called",
                    !.url = WritePathUrl(c[1]), !.soup = c[2],
                    !.parts = [NoParts EXCEPT !.path = c[1].path,
                                              !.params = c[1].params,
                                              !.query = c[1].query]] :
        c \in PathParts \X Soups}

FnInit ==
    /\ \E seed \in Seeds : Constructed(seed)
    /\ to_visit = <<>>
    /\ pages_scraped = 0
    /\ max_pages = NoBudget
    /\ page_data = <<>>
    /\ response = NoFetch
    /\ requests_log = <<>>
    /\ dequeues = 0
    /\ served = 0
    /\ pc = "constructed"
    /\ call \in CleanCalls \cup ValidCalls \cup TypeCalls
    /\ call.fn # "is_valid_url" => base_url = HttpExCom

CallCleanUrl ==
    /\ call.fn = "clean_url" /\ call.state = "called"
    /\ call' = [call EXCEPT !.state = "returned", !.ret = clean_url(call.url)]
    /\ UNCHANGED <<base_url, crawl_vars>>

\* clean_url applied to what clean_url returned.
CallCleanUrlAgain ==
    /\ call.fn = "clean_url" /\ call.state = "returned"
    /\ call' = [call EXCEPT !.state = "returned twice", !.ret2 = clean_url(call.ret)]
    /\ UNCHANGED <<base_url, crawl_vars>>

CallIsValidUrl ==
    /\ call.fn = "is_valid_url" /\ call.state = "called"
    /\ call' = [call EXCEPT !.state = "returned", !.ret = <<is_valid_url(call.url)>>]
    /\ UNCHANGED <<base_url, crawl_vars>>

CallGetPageType ==
    /\ call.fn = "get_page_type" /\ call.state = "called"
    /\ call' = [call EXCEPT !.state = "returned",
                            !.ret = <<get_page_type(call.url, call.soup)>>]
    /\ UNCHANGED <<base_url, crawl_vars>>

FnNext ==
    \/ CallCleanUrl
    \/ CallCleanUrlAgain
    \/ CallIsValidUrl
    \/ CallGetPageType

FnSpec == FnInit /\ [][FnNext]_vars

-----------------------------------------------------------------------------
(* Claims about the crawl (Spec).                                          *)

\* C1: with a page budget N (N = 0 included), scrape_website dequeues and
\* processes at most N entries of to_visit before the loop exits; with N = 0 no
\* URL is dequeued or fetched at all.
C1_BudgetRespect ==
    max_pages # NoBudget =>
        /\ dequeues <= max_pages
        /\ Len(requests_log) <= max_pages
        /\ pages_scraped <= max_pages
        /\ (max_pages = 0 => dequeues = 0 /\ requests_log = <<>> /\ to_visit = <<base_url>>)

\* C1's case: the loop has ended on the budget, with entries left in to_visit.
C1_Witness ==
    /\ pc = "done"
    /\ max_pages > 0
    /\ dequeues = max_pages
    /\ to_visit # <<>>

\* The three type sets partition the keys of hierarchy h, each key in the set
\* of its node's type.
Partitions(h, products, categories, content) ==
    /\ products \cap categories = {}
    /\ products \cap content = {}
    /\ categories \cap content = {}
    /\ products \cup categories \cup content = DOMAIN h
    /\ \A k \in DOMAIN h :
        /\ h[k].type = "product" <=> k \in products
        /\ h[k].type = "category" <=> k \in categories
        /\ h[k].type = "content" <=> k \in content

\* The process has not been cut inside an iteration.
BetweenIterations == pc \in {"running", "done", "error"}

\* C2: after every iteration of the crawl loop, and in the files written when the
\* crawl completes, product_pages, category_pages and content_pages are pairwise
\* disjoint, their union is the key set of page_hierarchy, and every key is in
\* the one set that matches its node's type.
C2_Partition ==
    /\ BetweenIterations =>
        Partitions(page_hierarchy, product_pages, category_pages, content_pages)
    /\ pc = "done" =>
        /\ disk.site_hierarchy # <<>> /\ disk.page_listings # <<>>
        /\ Partitions(disk.site_hierarchy[1], disk.page_listings[1].products,
                      disk.page_listings[1].categories, disk.page_listings[1].content)

\* C2's case: a completed crawl with a page of each type.
C2_Witness ==
    /\ pc = "done"
    /\ product_pages # {} /\ category_pages # {} /\ content_pages # {}

\* C3: when the user interrupts the crawl loop after k pages (k >= 1, below the
\* budget), the run ends with site_hierarchy.json holding the nodes of the pages
\* scraped so far and page_listings.json partitioning them.
C3_GracefulInterruption ==
    (pc = "interrupted" /\ pages_scraped >= 1) =>
        /\ disk.site_hierarchy # <<>> /\ disk.page_listings # <<>>
        /\ DOMAIN disk.site_hierarchy[1] = DOMAIN page_hierarchy
        /\ Partitions(disk.site_hierarchy[1], disk.page_listings[1].products,
                      disk.page_listings[1].categories, disk.page_listings[1].content)

\* The clean URLs of the page requests made, in order.
RequestedClean == [i \in 1..Len(requests_log) |-> clean_url(requests_log[i])]

\* A step that dequeues an entry whose clean URL is already in visited_urls.
DequeuesVisited ==
    /\ dequeues' = dequeues + 1
    /\ clean_url(Head(to_visit)) \in visited_urls

\* C4: each clean URL is requested at most once, and the dequeue of an entry
\* whose clean URL is already in visited_urls does nothing: no request, no page
\* data, no link enqueued, and visited_urls, page_hierarchy and the three type
\* sets unchanged.
C4_AtMostOnce ==
    /\ [](\A i, j \in 1..Len(requests_log) :
            RequestedClean[i] = RequestedClean[j] => i = j)
    /\ [][DequeuesVisited =>
            /\ requests_log' = requests_log
            /\ page_data' = <<>>
            /\ to_visit' = Tail(to_visit)
            /\ UNCHANGED <<visited_urls, page_hierarchy, product_pages,
                           category_pages, content_pages, disk>>]_vars

\* C4's case: a second entry for a visited clean URL has just been dequeued.
C4_Witness ==
    /\ pc = "running"
    /\ dequeues >= 3
    /\ ~response.fetched
    /\ Len(requests_log) < dequeues

Failed(resp) == resp.fetched /\ (resp.get.raised \/ resp.get.status_code # HTTP_OK)

\* C5: an iteration whose page fetch returns a status other than 200 or raises
\* gets no links and no page data from scrape_page, leaves page_hierarchy and
\* the three type sets unchanged, appends nothing to to_visit, and leaves the
\* crawl running on the next entry.
C5_PageScopedFailure ==
    [][(pages_scraped' = pages_scraped + 1 /\ Failed(response')) =>
        /\ page_data' = <<>>
        /\ to_visit' = Tail(to_visit)
        /\ UNCHANGED <<page_hierarchy, product_pages, category_pages, content_pages>>
        /\ disk' = disk
        /\ pc' = "running"]_vars

\* C5's case: a page fetch has just failed, the page is visited and not in
\* page_hierarchy, and the crawl is running with entries left in to_visit.
C5_Witness ==
    /\ pc = "running"
    /\ Failed(response)
    /\ page_data = <<>>
    /\ to_visit # <<>>
    /\ clean_url(requests_log[Len(requests_log)]) \in visited_urls \ DOMAIN page_hierarchy

Fetched(resp) == resp.fetched /\ ~resp.get.raised /\ resp.get.status_code = HTTP_OK
ImageFetched(img) == ~img.get.raised /\ img.get.status_code = HTTP_OK
ImageUrls(images) == {images[i].original_url : i \in 1..Len(images)}

\* The type set of a page type.
PageSet(page_type) ==
    IF page_type = "product" THEN product_pages
    ELSE IF page_type = "category" THEN category_pages
    ELSE content_pages

\* C6: when the fetch of an image of a page fails (a status other than 200, or
\* an exception), that image is left out of the page's images while every image
\* fetched is kept; the page's data is produced and written, and the page is in
\* page_hierarchy and in its type set.
C6_ImageScopedFailure ==
    (BetweenIterations /\ Fetched(response)) =>
        /\ page_data # <<>>
        /\ ImageUrls(page_data[1].images) =
               {response.doc.imgs[k].src :
                    k \in {i \in 1..Len(response.doc.imgs) :
                               ImageFetched(response.doc.imgs[i])}}
        /\ Len(page_data[1].images) =
               Cardinality({i \in 1..Len(response.doc.imgs) :
                               ImageFetched(response.doc.imgs[i])})
        /\ page_data[1].path \in DOMAIN disk.page_info
        /\ page_data[1].url \in DOMAIN page_hierarchy
        /\ page_data[1].url \in PageSet(page_data[1].type)

\* C6's case: a page with one image that failed and one that was fetched.
C6_Witness ==
    /\ BetweenIterations /\ Fetched(response)
    /\ \E i, j \in 1..Len(response.doc.imgs) :
        /\ ~ImageFetched(response.doc.imgs[i])
        /\ ImageFetched(response.doc.imgs[j])
    /\ Len(page_data[1].images) = 1

\* The URL has the network location of the seed.
OnDomain(u) == urlparse(u).netloc = urlparse(base_url).netloc
Range(seq) == {seq[i] : i \in 1..Len(seq)}

\* C7: every URL in to_visit, in visited_urls, in page_hierarchy (keys and
\* children) and in the three type sets has the seed's network location, and so
\* has every URL requested as a page.
C7_DomainRestriction ==
    /\ \A u \in Range(to_visit) \cup Range(requests_log) : OnDomain(u)
    /\ \A u \in visited_urls \cup product_pages \cup category_pages \cup content_pages :
        OnDomain(u)
    /\ \A k \in DOMAIN page_hierarchy :
        OnDomain(k) /\ \A c \in Range(page_hierarchy[k].children) : OnDomain(c)

\* C7's case: a scraped page has an anchor to another domain, and the crawl
\* has gone on.
C7_Witness ==
    /\ pc = "running"
    /\ Fetched(response)
    /\ \E a \in Range(response.doc.anchors) : ~OnDomain(a)
    /\ to_visit # <<>>

\* The pages scraped so far, as their page_info.json files tell: each with its
\* clean URL and its links.
ScrapedPages == {disk.page_info[p] : p \in DOMAIN disk.page_info}
LinkTargets(links) == {links[i].url : i \in 1..Len(links)}

\* The targets of the links of the scraped pages among S.
TargetsOf(S) == UNION {LinkTargets(r.links) : r \in {x \in ScrapedPages : x.url \in S}}

\* The URLs within k links of those of S.
RECURSIVE Within(_, _)
Within(S, k) == IF k = 0 THEN S ELSE Within(S \cup TargetsOf(S), k - 1)

\* The link distance from the seed: the length of the shortest path in the graph
\* of the links of the scraped pages.
MaxDistance == Cardinality(ScrapedPages)
HasDistance(u) == u \in Within({base_url}, MaxDistance)
Distance(u) ==
    CHOOSE k \in 0..MaxDistance :
        /\ u \in Within({base_url}, k)
        /\ \A j \in 0..(k - 1) : u \notin Within({base_url}, j)

\* C11: to_visit is FIFO, so the clean URLs are first processed in an order that
\* is non-decreasing in their link distance from the seed (the shortest path
\* through the links of the scraped pages).
C11_BreadthFirstOrder ==
    \A i, j \in 1..Len(requests_log) :
        (/\ i < j
         /\ HasDistance(RequestedClean[i])
         /\ HasDistance(RequestedClean[j]))
        => Distance(RequestedClean[i]) <= Distance(RequestedClean[j])

\* The URL is in page_hierarchy or in a type set.
Registered(u, h, products, categories, content) ==
    u \in DOMAIN h \cup products \cup categories \cup content

\* The pages visited and not registered: those whose fetch failed.
FailedPages == visited_urls \ DOMAIN page_hierarchy

\* C12: a page whose fetch fails is in visited_urls when the failure is met, is
\* never requested again for the rest of the crawl, and never becomes a key of
\* page_hierarchy or a member of a type set.
C12_FailedPagesVisited ==
    /\ [][(pages_scraped' = pages_scraped + 1 /\ Failed(response')) =>
            /\ clean_url(Head(to_visit)) \in visited_urls'
            /\ ~Registered(clean_url(Head(to_visit)), page_hierarchy', product_pages',
                           category_pages', content_pages')]_vars
    /\ [][\A u \in FailedPages :
            /\ u \in visited_urls'
            /\ ~Registered(u, page_hierarchy', product_pages', category_pages',
                           content_pages')
            /\ requests_log' # requests_log =>
                   clean_url(requests_log'[Len(requests_log')]) # u]_vars

\* C12's case: the seed's page has two links to a page whose fetch failed; the
\* second of the two entries has been dequeued and no request was made for it.
C12_Witness ==
    /\ pc = "running"
    /\ DOMAIN page_hierarchy = {base_url}
    /\ Len(requests_log) = 2
    /\ dequeues = 3
    /\ ~response.fetched
    /\ clean_url(requests_log[2]) \in FailedPages

\* The targets of link records, in order.
TargetSeq(links) == [i \in 1..Len(links) |-> links[i].url]

\* The members of seq that are in S, in order.
RECURSIVE Keep(_, _)
Keep(seq, S) ==
    IF seq = <<>> THEN <<>>
    ELSE (IF Head(seq) \in S THEN <<Head(seq)>> ELSE <<>>) \o Keep(Tail(seq), S)

\* A step that completes an iteration in which the page was scraped.
ScrapesPage == pages_scraped' = pages_scraped + 1 /\ page_data' # <<>>

\* C13: when a page is scraped, the children of its node are, in order, the
\* targets of its link records that are keys of page_hierarchy at that moment:
\* a target is appended if and only if it is a key then.
C13_EdgeRule ==
    [][ScrapesPage =>
        page_hierarchy'[page_data'[1].url].children =
            Keep(TargetSeq(page_data'[1].links), DOMAIN page_hierarchy')]_vars

\* C14: the children of a node of page_hierarchy are a set: no URL is twice among
\* the children of a node, also when the page has several anchors with the same
\* clean target.
C14_ChildrenDistinct ==
    \A k \in DOMAIN page_hierarchy :
        \A i, j \in 1..Len(page_hierarchy[k].children) :
            page_hierarchy[k].children[i] = page_hierarchy[k].children[j] => i = j

\* C15: a clean URL enters page_hierarchy once, on its first successful scrape,
\* and is never removed: a key stays, and its node's path, title and type are
\* never written again.
C15_NodeEntersOnce ==
    /\ [][\A k \in DOMAIN page_hierarchy :
            /\ k \in DOMAIN page_hierarchy'
            /\ page_hierarchy'[k].path = page_hierarchy[k].path
            /\ page_hierarchy'[k].title = page_hierarchy[k].title
            /\ page_hierarchy'[k].type = page_hierarchy[k].type]_vars
    /\ [][\A k \in DOMAIN page_hierarchy' \ DOMAIN page_hierarchy :
            /\ k = clean_url(Head(to_visit))
            /\ k \notin visited_urls
            /\ Fetched(response')]_vars

\* C15's case: two pages are nodes, and an entry for a URL already visited has
\* been dequeued since.
C15_Witness ==
    /\ pc = "running"
    /\ Cardinality(DOMAIN page_hierarchy) = 2
    /\ FailedPages = {}
    /\ dequeues = 3
    /\ ~response.fetched

\* The links scrape_page has returned in the iteration that ends.
Discovered(data) == IF data = <<>> THEN <<>> ELSE TargetSeq(data[1].links)

\* The members of seq whose clean form is not in visited, in order.
RECURSIVE Unvisited(_, _)
Unvisited(seq, visited) ==
    IF seq = <<>> THEN <<>>
    ELSE (IF clean_url(Head(seq)) \in visited THEN <<>> ELSE <<Head(seq)>>)
         \o Unvisited(Tail(seq), visited)

\* C16: after each scrape, the discovered links whose clean form is not in
\* visited_urls at that moment are appended to the tail of to_visit in discovery
\* order, whatever to_visit holds, and the links in visited_urls (the current
\* page among them) are not appended.
C16_EnqueueRule ==
    [][pages_scraped' = pages_scraped + 1 =>
        /\ to_visit' = Tail(to_visit) \o Unvisited(Discovered(page_data'), visited_urls')
        /\ clean_url(Head(to_visit)) \in visited_urls']_vars

\* C16's case: a page with two links to one unvisited URL and a link to itself has
\* been scraped, and to_visit holds the URL twice.
C16_Witness ==
    /\ pc = "running"
    /\ page_data # <<>>
    /\ Len(page_data[1].links) = 3
    /\ \E i \in 1..3 : page_data[1].links[i].url = page_data[1].url
    /\ Len(to_visit) = 2
    /\ to_visit[1] = to_visit[2]

\* C17: on a finite site the crawl loop exits, on an empty to_visit or, with a
\* budget, on the budget reached, duplicates in to_visit and cycles among the
\* links notwithstanding; it never dequeues more than the seed and one entry for
\* each anchor of the site.
C17_Termination ==
    /\ <>(pc # "running")
    /\ [](pc = "done" =>
            \/ to_visit = <<>>
            \/ max_pages # NoBudget /\ pages_scraped = max_pages)
    /\ [](dequeues < MaxDequeues)

\* C17's case: a crawl without budget has ended on an empty to_visit, on a site
\* whose home page links to itself and twice to another page.
C17_Witness ==
    /\ pc = "done"
    /\ max_pages = NoBudget
    /\ to_visit = <<>>
    /\ base_url \in DOMAIN page_hierarchy
    /\ base_url \in Range(page_hierarchy[base_url].children)
    /\ dequeues = 3
    /\ Len(requests_log) = 2

\* site_hierarchy.json and page_listings.json hold page_hierarchy and the three
\* type sets.
Persisted(d) ==
    /\ d.site_hierarchy = <<page_hierarchy>>
    /\ d.page_listings = <<[products |-> product_pages, categories |-> category_pages,
                            content |-> content_pages]>>
NotPersisted(d) == d.site_hierarchy = <<>> /\ d.page_listings = <<>>

\* The loop has exited: to_visit is empty or the budget is reached.
LoopExited ==
    to_visit = <<>> \/ (max_pages # NoBudget /\ pages_scraped >= max_pages)

\* C18: the hierarchy and the listings are written once, only after the loop has
\* exited on an empty to_visit or on the budget, and they equal page_hierarchy and
\* the three type sets as they are at loop exit; they are not written when the
\* crawl ends by an unexpected error.
C18_FinalPersistence ==
    /\ [](pc = "done" => Persisted(disk))
    /\ [](pc # "done" => NotPersisted(disk))
    /\ [][(disk'.site_hierarchy # disk.site_hierarchy
           \/ disk'.page_listings # disk.page_listings) =>
            /\ pc = "running" /\ pc' = "done"
            /\ LoopExited
            /\ NotPersisted(disk)
            /\ UNCHANGED <<page_hierarchy, product_pages, category_pages, content_pages>>
            /\ Persisted(disk')]_vars

\* C18's case: the loop has exited on the budget with entries left in to_visit,
\* and the files hold the pages scraped, a product page among them.
C18_Witness ==
    /\ pc = "done"
    /\ to_visit # <<>>
    /\ product_pages # {}
    /\ Persisted(disk)

\* The other case of C18: the crawl has ended by an error after pages were
\* scraped, and the files were not written.
C18_ErrorCase ==
    pc = "error" /\ DOMAIN page_hierarchy # {} /\ NotPersisted(disk)

\* C19: when the loop exits on an empty to_visit, the target of every link
\* recorded for a scraped page is in visited_urls.
C19_CrawlComplete ==
    (pc = "done" /\ to_visit = <<>>) =>
        \A r \in ScrapedPages : LinkTargets(r.links) \subseteq visited_urls

\* C20: the children of a node are written only in the iteration that scrapes
\* the node's page: every later step leaves the children of the nodes it finds
\* unchanged, and every child recorded is a key of page_hierarchy.
C20_ChildrenFrozen ==
    /\ [][\A k \in DOMAIN page_hierarchy :
            k \in DOMAIN page_hierarchy' =>
                page_hierarchy'[k].children = page_hierarchy[k].children]_vars
    /\ [](\A k \in DOMAIN page_hierarchy :
            Range(page_hierarchy[k].children) \subseteq DOMAIN page_hierarchy)

\* C20's case: a page scraped later links to a node that has children, and is
\* not among them.
C20_Witness ==
    \E k, later \in DOMAIN page_hierarchy :
        /\ k # later
        /\ k \in Range(page_hierarchy[later].children)
        /\ page_hierarchy[k].children # <<>>
        /\ later \notin Range(page_hierarchy[k].children)

-----------------------------------------------------------------------------
(* Claims about the pure methods (FnSpec).                                 *)

\* C8: normalization is idempotent: for any URL u,
\* clean_url(clean_url(u)) = clean_url(u).
C8_CleanUrlIdempotent ==
    (call.fn = "clean_url" /\ call.state = "returned twice") => call.ret2 = call.ret

IsValidReturned == call.fn = "is_valid_url" /\ call.state = "returned"

\* C9, as stated: is_valid_url(u) is false whenever u's host differs from the
\* seed's host and true when the hosts are equal; an empty u returns false.
C9_HostFilter ==
    IsValidReturned =>
        call.ret = <<call.url # <<>> /\ call.parts.host = SeedParts(base_url).host>>

\* C9, amended: is_valid_url(u) is false whenever u's network location
\* (host[:port], compared case-sensitively) differs from the seed's and true when
\* the two are equal; an empty u returns false.
C9_NetlocFilter ==
    IsValidReturned =>
        call.ret = <<call.url # <<>>
                     /\ NetlocOf(call.parts) = NetlocOf(SeedParts(base_url))>>

\* C9's case: the same host on another port is refused, and the same host and
\* port is accepted.
C9_Witness ==
    /\ IsValidReturned
    /\ call.parts.host = SeedParts(base_url).host
    /\ call.parts.port # SeedParts(base_url).port
    /\ call.ret = <<FALSE>>

PageTypeReturned == call.fn = "get_page_type" /\ call.state = "returned"
ProductMarker(soup) == soup.div_product \/ soup.div_gallery
CategoryMarker(soup) == soup.ul_products \/ soup.div_header

\* The type by priority, for a path and a document: product, else category,
\* else content.
ByPriority(path, soup) ==
    IF HasWord(path, "product") \/ ProductMarker(soup) THEN "product"
    ELSE IF HasWord(path, "category") \/ HasWord(path, "shop") \/ CategoryMarker(soup)
    THEN "category"
    ELSE "content"

\* C10, as stated: get_page_type returns 'product' if the path contains "product"
\* or the document has a product marker; otherwise 'category' if the path
\* contains "category" or "shop" or the document has a category marker;
\* otherwise 'content'.
C10_PriorityByPath ==
    PageTypeReturned => call.ret = <<ByPriority(call.parts.path, call.soup)>>

\* C10, amended: the same, with the words looked for in the lower-cased path, so
\* that a path holds "shop" also when it spells it "Shop".
C10_PriorityByLowerPath ==
    PageTypeReturned => call.ret = <<ByPriority(Lower(call.parts.path), call.soup)>>

\* C10's case: a product marker and a category marker, and a path that spells
\* "Shop": the page is a product.
C10_Witness ==
    /\ PageTypeReturned
    /\ ProductMarker(call.soup) /\ CategoryMarker(call.soup)
    /\ HasWord(call.parts.path, "Shop")
    /\ call.ret = <<"product">>

=============================================================================
